---- MODULE Spec2Model ----
(***************************************************************************)
(* Model of fluid_sim.py: the smoothing kernel, the pressure field and the *)
(* update() step (prediction, force accumulation, integration and wall     *)
(* bounce) driven by the loop of main().                                   *)
(*                                                                         *)
(* Real numbers are modelled exactly, as reduced fractions <<n, d>> with   *)
(* d > 0.  Square and cube roots are taken exactly; update() is only       *)
(* entered from states whose distances and display sizes have exact roots  *)
(* and whose fractions stay within MaxDen.                                 *)
(***************************************************************************)
EXTENDS Integers, Sequences, FiniteSets, TLC

(* ------------------------------ bounds --------------------------------- *)

MaxSteps == 3

MaxDen == 1000

(* ------------------------- exact arithmetic ---------------------------- *)

Abs(n) == IF n < 0 THEN -n ELSE n

RECURSIVE GCD(_, _)
GCD(a, b) == IF b = 0 THEN a ELSE GCD(b, a % b)

Norm(n, d) ==
    LET g == GCD(Abs(n), Abs(d))
        s == IF d < 0 THEN -1 ELSE 1
    IN  <<s * (n \div g), s * (d \div g)>>

Rat(n) == <<n, 1>>

Frac(n, d) == Norm(n, d)

Zero == <<0, 1>>

(* The quotient Python refuses to compute: x / 0 raises ZeroDivisionError. *)
Undefined == <<0, 0>>

IsUndefined(a) == a[2] = 0

RNeg(a) == <<-a[1], a[2]>>

RAdd(a, b) ==
    IF IsUndefined(a) \/ IsUndefined(b) THEN Undefined
    ELSE LET g == GCD(a[2], b[2])
         IN  Norm(a[1] * (b[2] \div g) + b[1] * (a[2] \div g),
                  a[2] * (b[2] \div g))

RSub(a, b) == RAdd(a, RNeg(b))

RMul(a, b) ==
    IF IsUndefined(a) \/ IsUndefined(b) THEN Undefined
    ELSE LET g1 == GCD(Abs(a[1]), b[2])
             g2 == GCD(Abs(b[1]), a[2])
         IN  <<(a[1] \div g1) * (b[1] \div g2), (a[2] \div g2) * (b[2] \div g1)>>

RDiv(a, b) ==
    IF b[1] = 0 THEN Undefined
    ELSE RMul(a, IF b[1] < 0 THEN <<-b[2], -b[1]>> ELSE <<b[2], b[1]>>)

RLt(a, b) == RSub(a, b)[1] < 0

RLe(a, b) == RSub(a, b)[1] <= 0

RMax(a, b) == IF RLt(a, b) THEN b ELSE a

RECURSIVE RPow(_, _)
RPow(a, k) == IF k = 0 THEN Rat(1) ELSE RMul(a, RPow(a, k - 1))

RECURSIVE RootSearch(_, _, _, _)
RootSearch(n, k, lo, hi) ==
    IF lo >= hi THEN lo
    ELSE LET mid == (lo + hi + 1) \div 2
         IN  IF (k = 2 /\ mid * mid <= n) \/ (k = 3 /\ mid * mid * mid <= n)
             THEN RootSearch(n, k, mid, hi)
             ELSE RootSearch(n, k, lo, mid - 1)

IRoot(n, k) == RootSearch(n, k, 0, IF k = 2 THEN 46340 ELSE 1290)

HasRoot(a, k) ==
    /\ a[1] >= 0
    /\ RPow(Rat(IRoot(a[1], k)), k) = Rat(a[1])
    /\ RPow(Rat(IRoot(a[2], k)), k) = Rat(a[2])

RRoot(a, k) == <<IRoot(a[1], k), IRoot(a[2], k)>>

(* --------------------------- configuration ----------------------------- *)

PARTICLE_SIZE == 5

SMOOTHING_RADIUS == 30

PRESSURE_FORCE_MULT == Frac(1, 10)

TARGET_PRESSURE == Frac(1, 10)

WALL_MULT == Frac(7, 10)

WIDTH == 400

HEIGHT == 400

Extent(axis) == IF axis = 1 THEN Rat(WIDTH) ELSE Rat(HEIGHT)

(* ------------------------------ kernel --------------------------------- *)

smoothing_function_unclamped(distance) ==
    LET value == RDiv(RSub(Rat(SMOOTHING_RADIUS), distance),
                      Rat(SMOOTHING_RADIUS))
    IN  RMul(RPow(value, 3), Frac(2, SMOOTHING_RADIUS))

smoothing_function(distance) ==
    LET value == RMax(Zero, RDiv(RSub(Rat(SMOOTHING_RADIUS), distance),
                                 Rat(SMOOTHING_RADIUS)))
    IN  RMul(RPow(value, 3), Frac(2, SMOOTHING_RADIUS))

smoothing_derivative(distance) ==
    RDiv(RMul(Rat(-6), RPow(RSub(Rat(SMOOTHING_RADIUS), distance), 2)),
         RPow(Rat(SMOOTHING_RADIUS), 4))

calculate_distance(point1, point2) ==
    RRoot(RAdd(RPow(RSub(point1[1], point2[1]), 2),
               RPow(RSub(point1[2], point2[2]), 2)), 2)

RECURSIVE PressureSumOthers(_, _, _, _)
PressureSumOthers(point, positions, masses, n) ==
    IF n = 0 THEN Zero
    ELSE IF calculate_distance(point, positions[n]) = Zero
         THEN PressureSumOthers(point, positions, masses, n - 1)
         ELSE RAdd(PressureSumOthers(point, positions, masses, n - 1),
                   RMul(smoothing_function(calculate_distance(point,
                                                              positions[n])),
                        masses[n]))

RECURSIVE PressureSum(_, _, _, _)
PressureSum(point, positions, masses, n) ==
    IF n = 0 THEN Zero
    ELSE RAdd(PressureSum(point, positions, masses, n - 1),
              RMul(smoothing_function(calculate_distance(point, positions[n])),
                   masses[n]))

calculate_pressure(point, positions, masses) ==
    PressureSum(point, positions, masses, Len(positions))

(* --------------------------- input domains ----------------------------- *)

NumParticlesChoices == {1, 2}

GravityChoices == {Zero, Frac(1, 100)}

MassChoices == {Rat(1), Rat(8)}

SingleCoords == {2, 5, 200, 398}

SingleSpeeds == {-4, 0, 4}

PairAnchors == {<<100, 200>>, <<8, 200>>}

PairDistances == {Rat(0), Rat(10), Rat(15), Rat(30), Rat(40), Rat(45), Rat(60)}

PairOffsets == {<<0, 0>>, <<15, 0>>, <<30, 0>>, <<45, 0>>, <<18, 24>>,
                <<0, 40>>, <<0, 10>>, <<9, 12>>}

PairSpeeds == {<<0, 0>>, <<15, 0>>}

Vec(x, y) == <<Rat(x), Rat(y)>>

(* ------------------------------- state --------------------------------- *)

VARIABLES
    num_particles,        \* NUM_PARTICLES
    gravity,              \* GRAVITY
    masses,               \* main: masses
    speeds,               \* main: speeds
    positions,            \* main: positions
    pc,                   \* "main", "accel", "integrate", "return", "raised"
    predicted_positions,  \* update: predicted_positions
    pressure,             \* update: pressure of the particle handled last
    accelerations,        \* update: accelerations
    new_speeds,           \* update: new_speeds
    new_positions,        \* update: new_positions
    i,                    \* update: index of the second loop
    steps,                \* completed calls of update()
    start_positions,      \* positions handed to the first call
    start_speeds,         \* speeds handed to the first call
    contact,              \* some wall branch has been taken so far
    k_distance,           \* arguments of smoothing_function under test
    k_value               \* values of smoothing_function under test

vars == <<num_particles, gravity, masses, speeds, positions, pc,
          predicted_positions, pressure, accelerations, new_speeds,
          new_positions, i, steps, start_positions, start_speeds, contact,
          k_distance, k_value>>

Particles == 1..num_particles

(* ------------------------------ update() ------------------------------- *)

PredictedPositions(initial_speeds, initial_positions) ==
    [p \in 1..Len(initial_positions) |->
        <<RAdd(initial_positions[p][1], initial_speeds[p][1]),
          RAdd(initial_positions[p][2], initial_speeds[p][2])>>]

PairForceSkipZero(p, j, pp, m, press, axis) ==
    LET distance == calculate_distance(pp[p], pp[j])
        pressure_gradient == RMul(smoothing_derivative(distance), m[j])
        pressure_difference == RSub(TARGET_PRESSURE, press)
    IN  IF distance = Zero THEN Zero
        ELSE RMul(RMul(RMul(RDiv(RSub(pp[p][axis], pp[j][axis]), distance),
                            pressure_gradient),
                       pressure_difference),
                  PRESSURE_FORCE_MULT)

PairForce(p, j, pp, m, press, axis) ==
    LET distance == calculate_distance(pp[p], pp[j])
        pressure_gradient == RMul(smoothing_derivative(distance), m[j])
        pressure_difference == RSub(TARGET_PRESSURE, press)
    IN  RMul(RMul(RMul(RDiv(RSub(pp[p][axis], pp[j][axis]), distance),
                       pressure_gradient),
                  pressure_difference),
             PRESSURE_FORCE_MULT)

RECURSIVE PressureForceLater(_, _, _, _, _, _)
PressureForceLater(p, pp, m, press, axis, n) ==
    IF n <= p THEN Zero
    ELSE RAdd(PressureForceLater(p, pp, m, press, axis, n - 1),
              PairForce(p, n, pp, m, press, axis))

RECURSIVE PressureForce(_, _, _, _, _, _)
PressureForce(p, pp, m, press, axis, n) ==
    IF n = 0 THEN Zero
    ELSE IF n = p THEN PressureForce(p, pp, m, press, axis, n - 1)
    ELSE RAdd(PressureForce(p, pp, m, press, axis, n - 1),
              PairForce(p, n, pp, m, press, axis))

Acceleration(p, pp, m, g) ==
    LET press == calculate_pressure(pp[p], pp, m)
    IN  <<RAdd(Zero, RDiv(PressureForce(p, pp, m, press, 1, Len(pp)), press)),
          RAdd(g, RDiv(PressureForce(p, pp, m, press, 2, Len(pp)), press))>>

ZeroVectors(n) == [p \in 1..n |-> <<Zero, Zero>>]

DisplaySize(mass) == RMul(RRoot(mass, 3), Rat(PARTICLE_SIZE))

IntegratedSpeedFirst(p, initial_speeds, acc) ==
    <<RAdd(initial_speeds[1][1], acc[p][1]),
      RAdd(initial_speeds[1][2], acc[p][2])>>

IntegratedSpeed(p, initial_speeds, acc) ==
    <<RAdd(initial_speeds[p][1], acc[p][1]),
      RAdd(initial_speeds[p][2], acc[p][2])>>

IntegratedPosition(p, pp, speed) ==
    <<RAdd(pp[p][1], speed[1]), RAdd(pp[p][2], speed[2])>>

HitsLow(x, display_size) == RLt(x, RAdd(Zero, display_size))

HitsHighNoExtent(x, display_size, axis) == RLt(display_size, x)

HitsHigh(x, display_size, axis) == RLt(RSub(Extent(axis), display_size), x)

BouncePositionAtEdge(x, display_size, axis) ==
    IF HitsLow(x, display_size) THEN Zero
    ELSE IF HitsHigh(x, display_size, axis) THEN Extent(axis) ELSE x

BouncePosition(x, display_size, axis) ==
    IF HitsLow(x, display_size) THEN RAdd(Zero, display_size)
    ELSE IF HitsHigh(x, display_size, axis)
         THEN RSub(Extent(axis), display_size)
         ELSE x

BounceSpeedNoFlip(x, v, display_size, axis) ==
    IF HitsLow(x, display_size) THEN RMul(v, WALL_MULT)
    ELSE IF HitsHigh(x, display_size, axis) THEN RMul(v, WALL_MULT)
         ELSE v

BounceSpeed(x, v, display_size, axis) ==
    IF HitsLow(x, display_size) THEN RMul(v, RNeg(WALL_MULT))
    ELSE IF HitsHigh(x, display_size, axis) THEN RMul(v, RNeg(WALL_MULT))
         ELSE v

Touches(x, display_size) ==
    \E axis \in 1..2 :
        HitsLow(x[axis], display_size) \/ HitsHigh(x[axis], display_size, axis)

SquaredDistance(point1, point2) ==
    RAdd(RPow(RSub(point1[1], point2[1]), 2),
         RPow(RSub(point1[2], point2[2]), 2))

(* The states from which a step is followed: fractions within MaxDen and   *)
(* exact roots, with the separations of a pair among PairDistances.        *)
Representable ==
    /\ \A p \in Particles : \A axis \in 1..2 :
           positions[p][axis][2] <= MaxDen /\ speeds[p][axis][2] <= MaxDen
    /\ \A p \in Particles : HasRoot(masses[p], 3)
    /\ LET pp == PredictedPositions(speeds, positions)
       IN  \A p, j \in Particles :
               p # j =>
                   /\ HasRoot(SquaredDistance(pp[p], pp[j]), 2)
                   /\ calculate_distance(pp[p], pp[j]) \in PairDistances

(* lines 54-62: entry of update(), the frozen snapshot *)
Call ==
    /\ pc = "main"
    /\ steps < MaxSteps
    /\ Representable
    /\ predicted_positions' = PredictedPositions(speeds, positions)
    /\ accelerations' = <<>>
    /\ pc' = "accel"
    /\ UNCHANGED <<num_particles, gravity, masses, speeds, positions, pressure,
                   new_speeds, new_positions, i, steps, start_positions,
                   start_speeds, contact, k_distance, k_value>>

(* lines 64-107: one iteration of the first loop *)
AccelStep ==
    /\ pc = "accel"
    /\ Len(accelerations) < num_particles
    /\ LET p == Len(accelerations) + 1
       IN  /\ pressure' = calculate_pressure(predicted_positions[p],
                                             predicted_positions, masses)
           /\ LET acceleration == Acceleration(p, predicted_positions, masses,
                                                gravity)
              IN  IF IsUndefined(acceleration[1]) \/ IsUndefined(acceleration[2])
                  THEN /\ pc' = "raised"
                       /\ UNCHANGED accelerations
                  ELSE /\ accelerations' = Append(accelerations, acceleration)
                       /\ pc' = "accel"
    /\ UNCHANGED <<num_particles, gravity, masses, speeds, positions,
                   predicted_positions, new_speeds, new_positions, i, steps,
                   start_positions, start_speeds, contact, k_distance, k_value>>

(* lines 109-110: the output lists *)
Allocate ==
    /\ pc = "accel"
    /\ Len(accelerations) = num_particles
    /\ new_speeds' = ZeroVectors(num_particles)
    /\ new_positions' = ZeroVectors(num_particles)
    /\ i' = 1
    /\ pc' = "integrate"
    /\ UNCHANGED <<num_particles, gravity, masses, speeds, positions, pressure,
                   predicted_positions, accelerations, steps, start_positions,
                   start_speeds, contact, k_distance, k_value>>

(* lines 112-141: one iteration of the second loop *)
IntegrateStep ==
    /\ pc = "integrate"
    /\ i <= num_particles
    /\ LET v == IntegratedSpeed(i, speeds, accelerations)
           x == IntegratedPosition(i, predicted_positions, v)
           display_size == DisplaySize(masses[i])
       IN  /\ new_speeds' =
                 [new_speeds EXCEPT ![i] =
                     <<BounceSpeed(x[1], v[1], display_size, 1),
                       BounceSpeed(x[2], v[2], display_size, 2)>>]
           /\ new_positions' =
                 [new_positions EXCEPT ![i] =
                     <<BouncePosition(x[1], display_size, 1),
                       BouncePosition(x[2], display_size, 2)>>]
           /\ contact' = (contact \/ Touches(x, display_size))
    /\ i' = i + 1
    /\ UNCHANGED <<num_particles, gravity, masses, speeds, positions, pc,
                   pressure, predicted_positions, accelerations, steps,
                   start_positions, start_speeds, k_distance, k_value>>

(* line 143 *)
Finish ==
    /\ pc = "integrate"
    /\ i > num_particles
    /\ pc' = "return"
    /\ UNCHANGED <<num_particles, gravity, masses, speeds, positions, pressure,
                   predicted_positions, accelerations, new_speeds,
                   new_positions, i, steps, start_positions, start_speeds,
                   contact, k_distance, k_value>>

(* line 172: speeds, positions = update(speeds, positions, masses) *)
Return ==
    /\ pc = "return"
    /\ speeds' = new_speeds
    /\ positions' = new_positions
    /\ steps' = steps + 1
    /\ pc' = "main"
    /\ UNCHANGED <<num_particles, gravity, masses, pressure,
                   predicted_positions, accelerations, new_speeds,
                   new_positions, i, start_positions, start_speeds, contact,
                   k_distance, k_value>>

(* ------------------------------ main() --------------------------------- *)

SingleInputs ==
    {<<<<Vec(x, y)>>, <<Vec(vx, vy)>>>> :
        x \in SingleCoords, y \in SingleCoords,
        vx \in SingleSpeeds, vy \in SingleSpeeds}

PairInputs ==
    {<<<<Vec(a[1], a[2]), Vec(a[1] + o[1], a[2] + o[2])>>,
       <<Vec(v[1], v[2]), Vec(w[1], w[2])>>>> :
        a \in PairAnchors, o \in PairOffsets, v \in PairSpeeds, w \in PairSpeeds}

Init ==
    /\ num_particles \in NumParticlesChoices
    /\ gravity \in GravityChoices
    /\ masses \in [1..num_particles -> MassChoices]
    /\ \E inp \in (IF num_particles = 1 THEN SingleInputs ELSE PairInputs) :
           /\ positions = inp[1]
           /\ speeds = inp[2]
    /\ pc = "main"
    /\ predicted_positions = <<>>
    /\ pressure = Zero
    /\ accelerations = <<>>
    /\ new_speeds = <<>>
    /\ new_positions = <<>>
    /\ i = 0
    /\ steps = 0
    /\ start_positions = positions
    /\ start_speeds = speeds
    /\ contact = FALSE
    /\ k_distance = <<>>
    /\ k_value = <<>>

(* lines 112-141 for particle p, given its acceleration *)
Integrate(p, initial_speeds, pp, m, acceleration) ==
    LET v == <<RAdd(initial_speeds[p][1], acceleration[1]),
               RAdd(initial_speeds[p][2], acceleration[2])>>
        x == <<RAdd(pp[p][1], v[1]), RAdd(pp[p][2], v[2])>>
        display_size == DisplaySize(m[p])
    IN  <<<<BounceSpeed(x[1], v[1], display_size, 1),
            BounceSpeed(x[2], v[2], display_size, 2)>>,
          <<BouncePosition(x[1], display_size, 1),
            BouncePosition(x[2], display_size, 2)>>>>

(* lines 51-143 as one function of the arguments *)
Update(initial_speeds, initial_positions, m, g) ==
    LET n == Len(initial_positions)
        pp == PredictedPositions(initial_speeds, initial_positions)
        out == [p \in 1..n |->
                   Integrate(p, initial_speeds, pp, m, Acceleration(p, pp, m, g))]
    IN  <<[p \in 1..n |-> out[p][1]], [p \in 1..n |-> out[p][2]]>>

Next == Call \/ AccelStep \/ Allocate \/ IntegrateStep \/ Finish \/ Return

Spec == Init /\ [][Next]_vars

(* --------------------- the kernel on its own -------------------------- *)

MaxHalfDistance == 80

KernelDistances == {Frac(k, 2) : k \in 0..MaxHalfDistance}

KernelInit ==
    /\ k_distance \in KernelDistances \X KernelDistances
    /\ k_value = <<>>
    /\ pc = "kernel"
    /\ num_particles = 0
    /\ gravity = Zero
    /\ masses = <<>>
    /\ positions = <<>>
    /\ speeds = <<>>
    /\ predicted_positions = <<>>
    /\ pressure = Zero
    /\ accelerations = <<>>
    /\ new_speeds = <<>>
    /\ new_positions = <<>>
    /\ i = 0
    /\ steps = 0
    /\ start_positions = <<>>
    /\ start_speeds = <<>>
    /\ contact = FALSE

KernelEval ==
    /\ pc = "kernel"
    /\ k_value' = <<smoothing_function(k_distance[1]),
                    smoothing_function(k_distance[2])>>
    /\ pc' = "kernel_done"
    /\ UNCHANGED <<num_particles, gravity, masses, speeds, positions,
                   predicted_positions, pressure, accelerations, new_speeds,
                   new_positions, i, steps, start_positions, start_speeds,
                   contact, k_distance>>

KernelNext == KernelEval

KernelSpec == KernelInit /\ [][KernelNext]_vars

TypeOK == pc \in {"main", "accel", "integrate", "return", "raised"}

(* ------------------------------ properties ----------------------------- *)

InCall == pc \in {"accel", "integrate", "return"}

ZeroVector == <<Zero, Zero>>

FarApart ==
    /\ num_particles = 2
    /\ RLt(Rat(SMOOTHING_RADIUS),
           calculate_distance(predicted_positions[1], predicted_positions[2]))

(* C1: with exactly two particles whose predicted positions are farther   *)
(* apart than SMOOTHING_RADIUS and gravity zero, the acceleration of each  *)
(* particle computed by update() is (0, 0).                                *)
C1_FarPairNoForce ==
    (InCall /\ gravity = Zero /\ FarApart /\ Len(accelerations) = 2)
        => \A p \in 1..2 : accelerations[p] = ZeroVector

FreeFall ==
    /\ num_particles = 1
    /\ start_speeds[1] = ZeroVector
    /\ ~contact
    /\ pc = "main"

(* C2: a lone particle starting at rest under gravity G, with no wall      *)
(* contact in the first t calls, has vertical velocity t*G and vertical    *)
(* displacement G*t*(t+1)/2 after t calls of update().                     *)
C2_UniformAcceleration ==
    FreeFall =>
        /\ speeds[1][2] = RMul(Rat(steps), gravity)
        /\ RSub(positions[1][2], start_positions[1][2])
               = RMul(gravity, Frac(steps * (steps + 1), 2))

AtRestAlone ==
    /\ num_particles = 1
    /\ gravity = Zero
    /\ start_speeds[1] = ZeroVector
    /\ pc = "main"

StartsInsideWalls ==
    \A axis \in 1..2 :
        LET s == RMul(RRoot(masses[1], 3), Rat(PARTICLE_SIZE))
        IN  /\ RLe(s, start_positions[1][axis])
            /\ RLe(start_positions[1][axis], RSub(Extent(axis), s))

(* C3 as stated: a lone particle at rest without gravity keeps its initial *)
(* position after any number of calls of update(), for every initial       *)
(* position.                                                               *)
C3_RestingParticleAnywhere == AtRestAlone => positions = start_positions

(* C3 as amended: a lone particle at rest without gravity keeps its        *)
(* initial position after any number of calls of update(), for every       *)
(* initial position that lies within the walls by its display radius on    *)
(* both axes.                                                              *)
C3_RestingParticleInside ==
    (AtRestAlone /\ StartsInsideWalls) => positions = start_positions

C3_Witness ==
    /\ AtRestAlone
    /\ StartsInsideWalls
    /\ steps >= 2
    /\ masses[1] = Rat(8)
    /\ positions = start_positions

BeforeBounceSpeed(p, axis) == RAdd(speeds[p][axis], accelerations[p][axis])

BeforeBouncePosition(p, axis) ==
    RAdd(predicted_positions[p][axis], BeforeBounceSpeed(p, axis))

Radius(p) == RMul(RRoot(masses[p], 3), Rat(PARTICLE_SIZE))

Integrated(p) == (pc = "integrate" /\ p < i) \/ (pc = "return" /\ p <= num_particles)

(* C4: for every particle and each axis, an integrated position below the  *)
(* display radius s is set to s, else one above extent - s is set to       *)
(* extent - s, in either case the new velocity on that axis is multiplied  *)
(* by -WALL_MULT once; otherwise position and velocity stay as integrated. *)
C4_WallBounce ==
    \A p \in Particles : \A axis \in 1..2 :
        Integrated(p) =>
            LET v == BeforeBounceSpeed(p, axis)
                x == BeforeBouncePosition(p, axis)
                s == Radius(p)
                bounced == RSub(Zero, RMul(WALL_MULT, v))
            IN  IF RLt(x, s)
                THEN new_positions[p][axis] = s /\ new_speeds[p][axis] = bounced
                ELSE IF RLt(RSub(Extent(axis), s), x)
                     THEN /\ new_positions[p][axis] = RSub(Extent(axis), s)
                          /\ new_speeds[p][axis] = bounced
                     ELSE /\ new_positions[p][axis] = x
                          /\ new_speeds[p][axis] = v

C4_Witness ==
    /\ pc = "return"
    /\ \E p \in Particles :
           /\ RLt(BeforeBouncePosition(p, 1), Radius(p))
           /\ RLt(BeforeBounceSpeed(p, 1), Zero)
           /\ new_positions[p][1] = Radius(p)
           /\ RLt(Zero, new_speeds[p][1])
           /\ RLt(RSub(Extent(2), Radius(p)), BeforeBouncePosition(p, 2))

(* C5: after every call of update() every particle's position lies in     *)
(* [displayRadius, WIDTH - displayRadius] x [displayRadius, HEIGHT -        *)
(* displayRadius], provided twice the display radius fits in the domain.   *)
C5_InsideWalls ==
    (pc = "main" /\ steps >= 1) =>
        \A p \in Particles : \A axis \in 1..2 :
            RLe(RMul(Rat(2), Radius(p)), Extent(axis)) =>
                /\ RLe(Radius(p), positions[p][axis])
                /\ RLe(positions[p][axis], RSub(Extent(axis), Radius(p)))

C5_Witness ==
    /\ pc = "main"
    /\ steps >= 1
    /\ contact
    /\ \E p \in Particles :
           /\ RLt(start_positions[p][1], Radius(p))
           /\ positions[p][1] = Radius(p)

Reverse(s) == [p \in 1..Len(s) |-> s[Len(s) + 1 - p]]

(* C6: all accelerations are computed from the one snapshot taken at the   *)
(* start of the step, before any integration, and the result returned for  *)
(* each particle does not depend on the order in which the particles are   *)
(* processed: handing the particles to update() in the opposite order      *)
(* yields the same velocities and positions for each of them.              *)
C6_OrderIndependent ==
    /\ InCall => predicted_positions = PredictedPositions(speeds, positions)
    /\ pc \in {"integrate", "return"} => Len(accelerations) = num_particles
    /\ pc = "accel" =>
           \A p \in 1..Len(accelerations) :
               accelerations[p] =
                   Acceleration(num_particles + 1 - p,
                                Reverse(predicted_positions), Reverse(masses),
                                gravity)
    /\ pc = "return" =>
           LET mirrored == Update(Reverse(speeds), Reverse(positions),
                                  Reverse(masses), gravity)
           IN  /\ new_speeds = Reverse(mirrored[1])
               /\ new_positions = Reverse(mirrored[2])

C6_Witness ==
    /\ pc = "return"
    /\ num_particles = 2
    /\ masses[1] # masses[2]
    /\ accelerations[1] # accelerations[2]
    /\ accelerations[1][1] # Zero
    /\ new_positions[1] # new_positions[2]

(* C7: across any sequence of steps the masses and the particle count are  *)
(* unchanged, a call of update() does not modify the velocity and position *)
(* sequences passed to it, the returned sequences have length N, and index *)
(* p of the output is the particle at index p of the input.                *)
C7_PureTransform ==
    [][ /\ masses' = masses
        /\ num_particles' = num_particles
        /\ pc # "return" => (speeds' = speeds /\ positions' = positions)
        /\ pc' = "return" =>
               /\ Len(new_speeds') = num_particles
               /\ Len(new_positions') = num_particles
               /\ \A p \in Particles : \A axis \in 1..2 :
                      LET s == RMul(RRoot(masses[p], 3), Rat(PARTICLE_SIZE))
                          x == RAdd(RAdd(positions[p][axis], speeds[p][axis]),
                                    RAdd(speeds[p][axis],
                                         accelerations'[p][axis]))
                      IN  (RLe(s, x) /\ RLe(x, RSub(Extent(axis), s))) =>
                              /\ new_positions'[p][axis] = x
                              /\ new_speeds'[p][axis] =
                                     RAdd(speeds[p][axis],
                                          accelerations'[p][axis])
      ]_vars

C7_Witness ==
    /\ pc = "return"
    /\ num_particles = 2
    /\ steps >= 1
    /\ speeds[1] # speeds[2]
    /\ new_speeds # speeds
    /\ new_positions # positions

KernelRadius == Rat(SMOOTHING_RADIUS)

(* C8: smoothing_function is zero at every distance >= SMOOTHING_RADIUS,   *)
(* equals 2/SMOOTHING_RADIUS at distance 0, is strictly decreasing on      *)
(* [0, SMOOTHING_RADIUS) and is nowhere negative.                          *)
C8_KernelShape ==
    pc = "kernel_done" =>
        /\ \A k \in 1..2 :
               /\ RLe(KernelRadius, k_distance[k]) => k_value[k] = Zero
               /\ k_distance[k] = Zero => k_value[k] = Frac(2, SMOOTHING_RADIUS)
               /\ RLe(Zero, k_value[k])
        /\ (RLt(k_distance[1], k_distance[2]) /\ RLt(k_distance[2], KernelRadius))
               => RLt(k_value[2], k_value[1])

C8_Witness ==
    /\ pc = "kernel_done"
    /\ k_distance[1] = Zero
    /\ RLt(Zero, k_distance[2])
    /\ RLt(k_distance[2], KernelRadius)
    /\ RLt(Zero, k_value[2])
    /\ RLt(k_value[2], k_value[1])

Clash ==
    /\ InCall
    /\ \E p, j \in Particles :
           p # j /\ predicted_positions[p] = predicted_positions[j]

(* C9: when two distinct particles have identical predicted positions at   *)
(* the start of a step, update() returns no new state: the step ends in    *)
(* the division error and the caller's velocities and positions remain     *)
(* those from before the call.                                             *)
C9_CoincidentRaises ==
    [][ Clash => /\ pc' = "raised"
                 /\ speeds' = speeds
                 /\ positions' = positions
                 /\ steps' = steps
                 /\ new_speeds' = new_speeds
                 /\ new_positions' = new_positions ]_vars

C9_Witness ==
    /\ pc = "raised"
    /\ num_particles = 2
    /\ predicted_positions[1] = predicted_positions[2]
    /\ positions[1] # positions[2]
    /\ predicted_positions = PredictedPositions(speeds, positions)

Isolated(p) ==
    \A j \in Particles :
        j # p => RLt(KernelRadius, calculate_distance(predicted_positions[p],
                                                      predicted_positions[j]))

LastHandled ==
    IF pc = "raised" THEN Len(accelerations) + 1 ELSE Len(accelerations)

(* C10: the pressure evaluated for a particle of positive mass at its own  *)
(* predicted position is at least (2/SMOOTHING_RADIUS) * mass, hence       *)
(* positive, so update() never divides by a zero pressure, also for a      *)
(* particle farther than the smoothing radius from every other one.        *)
C10_PressurePositive ==
    /\ ((InCall \/ pc = "raised") /\ LastHandled >= 1) =>
           /\ RLe(RMul(Frac(2, SMOOTHING_RADIUS), masses[LastHandled]), pressure)
           /\ RLt(Zero, pressure)
    /\ pc = "raised" =>
           \E p, j \in Particles :
               p # j /\ predicted_positions[p] = predicted_positions[j]

C10_Witness ==
    /\ pc = "accel"
    /\ num_particles = 2
    /\ Len(accelerations) = 2
    /\ Isolated(2)
    /\ pressure = RMul(Frac(2, SMOOTHING_RADIUS), masses[2])
    /\ masses[2] = Rat(8)

====
